---- MODULE Spec2Model ----
(***************************************************************************)
(* Model of the Peak card game engine (card.py, player.py, rules.py,       *)
(* game.py).  The game object is the record G built from the variables;    *)
(* every method of PeakGame is an operator from a game record (and its     *)
(* arguments) to the game record it leaves behind and the value it         *)
(* returns, and every action applies one public method to the current      *)
(* state.                                                                  *)
(***************************************************************************)
EXTENDS Integers, Sequences, FiniteSets, TLC

VARIABLES
    players,                       \* PeakGame.players: index -> Player
    deck,                          \* PeakGame.deck.cards (top of deck = last)
    discard_pile,                  \* PeakGame.discard_pile
    current_player_index,          \* PeakGame.current_player_index
    game_over,                     \* PeakGame.game_over
    winner,                        \* PeakGame.winner (<<>> = None, <<i>> = players[i])
    high_card_played_this_round,   \* PeakGame.high_card_played_this_round
    round_number,                  \* PeakGame.round_number
    last_call,                     \* the public call made last and what it returned
    high_card_players,             \* history: who played an 8-10 since the round began
    finish_order,                  \* history: players in the order they were marked finished
    calls                          \* number of calls that returned success so far

gameVars == <<players, deck, discard_pile, current_player_index, game_over,
              winner, high_card_played_this_round, round_number>>

vars == <<players, deck, discard_pile, current_player_index, game_over, winner,
          high_card_played_this_round, round_number, last_call,
          high_card_players, finish_order, calls>>

----------------------------------------------------------------------------
(* Bounds of the model *)

\* successful calls explored from a fresh game
MaxCalls == 10

\* how many of the deck orders below Init may choose
NumShuffles == 3

----------------------------------------------------------------------------
(* Program constants *)

MAX_PLAYERS == 4

STARTING_HAND_SIZE == 7

PEAK_CARD_PENALTY == 5

DISQUALIFY_OVER == 20

HIGHEST_VALUE == 10

NUM_PEAK_CARDS == 10

INITIAL_ROUND == 1

PlayerIds == 0 .. (MAX_PLAYERS - 1)

----------------------------------------------------------------------------
(* card.py *)

REGULAR == "regular"

PEAK == "peak"

Card(value, card_type) == [value |-> value, card_type |-> card_type]

PeakCard == Card(0, PEAK)

is_peak_card(card) == card.card_type = PEAK

\* Deck._create_deck: regular cards 1..10 followed by ten Peak cards
create_deck ==
    [i \in 1 .. (HIGHEST_VALUE + NUM_PEAK_CARDS) |->
        IF i <= HIGHEST_VALUE THEN Card(i, REGULAR) ELSE PeakCard]

AllCards == { create_deck[i] : i \in DOMAIN create_deck }

\* mutant: the top card is returned but stays in the deck
deal_card_peek(cards) ==
    IF cards # <<>>
    THEN [card |-> <<cards[Len(cards)]>>, cards |-> cards]
    ELSE [card |-> <<>>, cards |-> cards]

\* Deck.deal_card: pop the last card; <<>> stands for None
deal_card(cards) ==
    IF cards # <<>>
    THEN [card |-> <<cards[Len(cards)]>>, cards |-> SubSeq(cards, 1, Len(cards) - 1)]
    ELSE [card |-> <<>>, cards |-> cards]

\* mutant: a deck that cannot supply count cards deals none
deal_cards_all_or_nothing(cards, count) ==
    IF Len(cards) < count THEN [dealt |-> <<>>, cards |-> cards]
    ELSE [dealt |-> [i \in 1 .. count |-> cards[Len(cards) + 1 - i]],
          cards |-> SubSeq(cards, 1, Len(cards) - count)]

\* Deck.deal_cards: deal_card count times, stopping at the first None
RECURSIVE deal_cards(_, _)
deal_cards(cards, count) ==
    IF count = 0 THEN [dealt |-> <<>>, cards |-> cards]
    ELSE LET one == deal_card(cards) IN
         IF one.card # <<>>
         THEN LET rest == deal_cards(one.cards, count - 1) IN
              [dealt |-> one.card \o rest.dealt, cards |-> rest.cards]
         ELSE [dealt |-> <<>>, cards |-> one.cards]

cards_remaining(cards) == Len(cards)

is_empty(cards) == Len(cards) = 0

----------------------------------------------------------------------------
(* player.py *)

\* Player.__init__
Player(name) ==
    [name |-> name, hand |-> <<>>, is_disqualified |-> FALSE, has_finished |-> FALSE]

\* mutant: the threshold is the starting hand size
add_card_over_starting_hand(player, card) ==
    LET hand == Append(player.hand, card) IN
    [player EXCEPT !.hand = hand,
                   !.is_disqualified = IF Len(hand) > STARTING_HAND_SIZE THEN TRUE ELSE @]

\* mutant: the threshold is reached with the 20th card
add_card_at_twenty(player, card) ==
    LET hand == Append(player.hand, card) IN
    [player EXCEPT !.hand = hand,
                   !.is_disqualified = IF Len(hand) >= DISQUALIFY_OVER THEN TRUE ELSE @]

\* mutant: a player who is handed a card counts as not finished again
add_card_reactivates(player, card) ==
    LET hand == Append(player.hand, card) IN
    [player EXCEPT !.hand = hand,
                   !.has_finished = FALSE,
                   !.is_disqualified = IF Len(hand) > DISQUALIFY_OVER THEN TRUE ELSE @]

\* Player.add_card
add_card(player, card) ==
    LET hand == Append(player.hand, card) IN
    [player EXCEPT !.hand = hand,
                   !.is_disqualified = IF Len(hand) > DISQUALIFY_OVER THEN TRUE ELSE @]

\* Player.add_cards
RECURSIVE add_cards(_, _)
add_cards(player, cards) ==
    IF cards = <<>> THEN player
    ELSE add_cards(add_card(player, Head(cards)), Tail(cards))

\* mutant: the hand is not looked at
in_hand_unchecked(card, hand) == TRUE

\* card in player.hand
in_hand(card, hand) == \E i \in 1 .. Len(hand) : hand[i] = card

\* mutant: the first entry of the hand is dropped, whatever card it is
remove_card_first_entry(player, card) ==
    IF player.hand # <<>>
    THEN [player EXCEPT !.hand = Tail(@)]
    ELSE player

\* mutant: the last equal entry is dropped
remove_card_last(player, card) ==
    LET found == { k \in 1 .. Len(player.hand) : player.hand[k] = card } IN
    IF found # {}
    THEN LET i == CHOOSE k \in found : \A j \in found : k >= j
         IN [player EXCEPT !.hand = SubSeq(@, 1, i - 1) \o SubSeq(@, i + 1, Len(@))]
    ELSE player

\* Player.remove_card: list.remove drops the first equal entry; a hand
\* without the card is left as it is (the ValueError is caught)
remove_card(player, card) ==
    LET found == { k \in 1 .. Len(player.hand) : player.hand[k] = card } IN
    IF found # {}
    THEN LET i == CHOOSE k \in found : \A j \in found : k <= j
         IN [player EXCEPT !.hand = SubSeq(@, 1, i - 1) \o SubSeq(@, i + 1, Len(@))]
    ELSE player

get_hand_size(player) == Len(player.hand)

has_cards(player) == Len(player.hand) > 0

disqualify(player) == [player EXCEPT !.is_disqualified = TRUE]

finish_game(player) == [player EXCEPT !.has_finished = TRUE]

is_active(player) == ~player.is_disqualified /\ ~player.has_finished

----------------------------------------------------------------------------
(* rules.py *)

Abs(n) == IF n < 0 THEN -n ELSE n

\* mutant: regular cards two apart may follow each other
can_play_card_within_two(card, last_played_card) ==
    IF is_peak_card(card) THEN TRUE
    ELSE IF last_played_card = <<>> THEN TRUE
    ELSE IF is_peak_card(last_played_card[1]) THEN TRUE
    ELSE Abs(card.value - last_played_card[1].value) <= 2

\* GameRules.can_play_card; last_played_card is <<>> (None) or <<card>>
can_play_card(card, last_played_card) ==
    IF is_peak_card(card) THEN TRUE
    ELSE IF last_played_card = <<>> THEN TRUE
    ELSE IF is_peak_card(last_played_card[1]) THEN TRUE
    ELSE IF ~is_peak_card(card) /\ ~is_peak_card(last_played_card[1])
         THEN Abs(card.value - last_played_card[1].value) <= 1
    ELSE FALSE

\* mutant: card 7 is treated like the cards 5-6
can_finish_on_card_seven(card, high_card_played) ==
    IF is_peak_card(card) THEN FALSE
    ELSE IF 1 <= card.value /\ card.value <= 4 THEN FALSE
    ELSE IF 5 <= card.value /\ card.value <= 7 THEN TRUE
    ELSE IF 8 <= card.value /\ card.value <= 10 THEN high_card_played
    ELSE FALSE

\* GameRules.can_finish_on_card
can_finish_on_card(card, high_card_played) ==
    IF is_peak_card(card) THEN FALSE
    ELSE IF 1 <= card.value /\ card.value <= 4 THEN FALSE
    ELSE IF 5 <= card.value /\ card.value <= 6 THEN TRUE
    ELSE IF 8 <= card.value /\ card.value <= 10 THEN high_card_played
    ELSE IF card.value = 7 THEN FALSE
    ELSE FALSE

\* GameRules.should_disqualify_player
should_disqualify_player(player) == Len(player.hand) > DISQUALIFY_OVER

\* GameRules.is_high_value_card
is_high_value_card(card) ==
    ~is_peak_card(card) /\ 8 <= card.value /\ card.value <= 10

\* the indices of the active players, in list order
RECURSIVE active_from(_, _)
active_from(ps, i) ==
    IF i >= MAX_PLAYERS THEN <<>>
    ELSE (IF is_active(ps[i]) THEN <<i>> ELSE <<>>) \o active_from(ps, i + 1)

active_players(ps) == active_from(ps, 0)

\* the indices of the players with has_finished, in list order
RECURSIVE finished_from(_, _)
finished_from(ps, i) ==
    IF i >= MAX_PLAYERS THEN <<>>
    ELSE (IF ps[i].has_finished THEN <<i>> ELSE <<>>) \o finished_from(ps, i + 1)

finished_players(ps) == finished_from(ps, 0)

\* mutant: only the last player standing wins; finished players are ignored
get_winner_last_standing(ps) ==
    IF Len(active_players(ps)) = 1 THEN <<active_players(ps)[1]>> ELSE <<>>

\* mutant: the latest entry of the finished list is taken, not the first
get_winner_last_finished(ps) ==
    LET active == active_players(ps)
        finished == finished_players(ps)
    IN IF Len(active) = 1 THEN <<active[1]>>
       ELSE IF Len(active) = 0 THEN <<>>
       ELSE IF finished # <<>> THEN <<finished[Len(finished)]>>
       ELSE <<>>

\* GameRules.get_winner; <<>> stands for None
get_winner(ps) ==
    LET active == active_players(ps)
        finished == finished_players(ps)
    IN IF Len(active) = 1 THEN <<active[1]>>
       ELSE IF Len(active) = 0 THEN <<>>
       ELSE IF finished # <<>> THEN <<finished[1]>>
       ELSE <<>>

----------------------------------------------------------------------------
(* game.py *)

\* the PeakGame object as one record
G == [players |-> players,
      deck |-> deck,
      discard_pile |-> discard_pile,
      current_player_index |-> current_player_index,
      game_over |-> game_over,
      winner |-> winner,
      high_card_played_this_round |-> high_card_played_this_round,
      round_number |-> round_number]

\* what a call leaves when it raises ValueError
ValueError == [raised |-> "ValueError"]

Raised(result) == DOMAIN result = {"raised"}

\* mutant: only a list that is too short is refused
NewGame_at_least(player_names, cards) ==
    IF Len(player_names) < MAX_PLAYERS THEN ValueError
    ELSE [players |-> [i \in PlayerIds |-> Player(player_names[i + 1])],
          deck |-> cards,
          discard_pile |-> <<>>,
          current_player_index |-> 0,
          game_over |-> FALSE,
          winner |-> <<>>,
          high_card_played_this_round |-> FALSE,
          round_number |-> INITIAL_ROUND]

\* PeakGame.__init__ with the deck in the order the shuffle left it
NewGame(player_names, cards) ==
    IF Len(player_names) # MAX_PLAYERS THEN ValueError
    ELSE [players |-> [i \in PlayerIds |-> Player(player_names[i + 1])],
          deck |-> cards,
          discard_pile |-> <<>>,
          current_player_index |-> 0,
          game_over |-> FALSE,
          winner |-> <<>>,
          high_card_played_this_round |-> FALSE,
          round_number |-> INITIAL_ROUND]

\* the names the games of Spec are created with
PlayerNames == <<"Alice", "Bob", "Charlie", "Diana">>

\* PeakGame.setup_game: the loop over self.players, from player i on
RECURSIVE setup_from(_, _)
setup_from(g, i) ==
    IF i >= MAX_PLAYERS THEN g
    ELSE LET d == deal_cards(g.deck, STARTING_HAND_SIZE) IN
         setup_from([g EXCEPT !.deck = d.cards,
                              !.players[i] = add_cards(@, d.dealt)],
                    i + 1)

setup_game(g) == setup_from(g, 0)

get_current_player(g) == g.current_player_index

\* PeakGame.get_last_played_card; <<>> stands for None
get_last_played_card(g) ==
    IF g.discard_pile # <<>> THEN <<g.discard_pile[Len(g.discard_pile)]>> ELSE <<>>

\* mutant: a winner once recorded is not replaced
_check_game_over_keeps_winner(g) ==
    LET w == get_winner(g.players)
        g1 == IF w # <<>>
              THEN [g EXCEPT !.game_over = TRUE,
                             !.winner = IF g.winner # <<>> THEN @ ELSE w]
              ELSE g
    IN IF Len(active_players(g1.players)) = 0
       THEN [g1 EXCEPT !.game_over = TRUE]
       ELSE g1

\* PeakGame._check_game_over
_check_game_over(g) ==
    LET w == get_winner(g.players)
        g1 == IF w # <<>> THEN [g EXCEPT !.game_over = TRUE, !.winner = w] ELSE g
    IN IF Len(active_players(g1.players)) = 0
       THEN [g1 EXCEPT !.game_over = TRUE]
       ELSE g1

\* PeakGame._get_next_active_player; <<>> stands for None
_get_next_active_player(g) ==
    LET start_index == (g.current_player_index + 1) % MAX_PLAYERS
        found == { i \in 0 .. (MAX_PLAYERS - 1) :
                     is_active(g.players[(start_index + i) % MAX_PLAYERS]) }
    IN IF found = {} THEN <<>>
       ELSE LET i == CHOOSE k \in found : \A j \in found : k <= j
            IN <<(start_index + i) % MAX_PLAYERS>>

\* mutant: the penalty cards go to the player who played the Peak card
_handle_peak_card_to_current(g) ==
    LET n == g.current_player_index
        d == deal_cards(g.deck, PEAK_CARD_PENALTY)
        g1 == [g EXCEPT !.deck = d.cards, !.players[n] = add_cards(@, d.dealt)]
    IN IF should_disqualify_player(g1.players[n])
       THEN [g1 EXCEPT !.players[n] = disqualify(@)]
       ELSE g1

\* PeakGame._handle_peak_card
_handle_peak_card(g) ==
    LET next_player == _get_next_active_player(g) IN
    IF next_player # <<>>
    THEN LET n == next_player[1]
             d == deal_cards(g.deck, PEAK_CARD_PENALTY)
             g1 == [g EXCEPT !.deck = d.cards,
                             !.players[n] = add_cards(@, d.dealt)]
         IN IF should_disqualify_player(g1.players[n])
            THEN [g1 EXCEPT !.players[n] = disqualify(@)]
            ELSE g1
    ELSE g

\* mutant: a new round starts with the flag of the round before
_next_player_keeps_flag(g) ==
    LET original_index == g.current_player_index
        steps == { k \in 1 .. MAX_PLAYERS :
                     is_active(g.players[(original_index + k) % MAX_PLAYERS]) }
    IN IF steps = {}
       THEN _check_game_over(
                [g EXCEPT !.current_player_index =
                              (original_index + MAX_PLAYERS) % MAX_PLAYERS])
       ELSE LET k == CHOOSE s \in steps : \A t \in steps : s <= t
                g1 == [g EXCEPT !.current_player_index =
                                    (original_index + k) % MAX_PLAYERS]
            IN IF g1.current_player_index <= original_index
               THEN [g1 EXCEPT !.round_number = @ + 1]
               ELSE g1

\* PeakGame._next_player
_next_player(g) ==
    LET original_index == g.current_player_index
        steps == { k \in 1 .. MAX_PLAYERS :
                     is_active(g.players[(original_index + k) % MAX_PLAYERS]) }
    IN IF steps = {}
       THEN \* the loop ran MAX_PLAYERS times without a break
            _check_game_over(
                [g EXCEPT !.current_player_index =
                              (original_index + MAX_PLAYERS) % MAX_PLAYERS])
       ELSE LET k == CHOOSE s \in steps : \A t \in steps : s <= t
                g1 == [g EXCEPT !.current_player_index =
                                    (original_index + k) % MAX_PLAYERS]
            IN IF g1.current_player_index <= original_index
               THEN [g1 EXCEPT !.round_number = @ + 1,
                               !.high_card_played_this_round = FALSE]
               ELSE g1

\* mutant: the turn is passed on after a finish as after any other play
play_card_finish_passes_turn(g, player, card) ==
    IF player # get_current_player(g) THEN [g |-> g, ret |-> FALSE]
    ELSE IF ~in_hand(card, g.players[player].hand) THEN [g |-> g, ret |-> FALSE]
    ELSE IF ~can_play_card(card, get_last_played_card(g)) THEN [g |-> g, ret |-> FALSE]
    ELSE
      LET g1 == [g EXCEPT !.players[player] = remove_card(@, card),
                          !.discard_pile = Append(@, card)]
          g2 == IF is_high_value_card(card)
                THEN [g1 EXCEPT !.high_card_played_this_round = TRUE]
                ELSE g1
          g3 == IF is_peak_card(card) THEN _handle_peak_card(g2) ELSE g2
      IN IF ~has_cards(g3.players[player])
         THEN IF can_finish_on_card(card, g3.high_card_played_this_round)
              THEN [g |-> _next_player(_check_game_over(
                              [g3 EXCEPT !.players[player] = finish_game(@)])),
                    ret |-> TRUE]
              ELSE LET penalty_card == deal_card(g3.deck)
                       g4 == IF penalty_card.card # <<>>
                             THEN [g3 EXCEPT !.deck = penalty_card.cards,
                                             !.players[player] =
                                                 add_card(@, penalty_card.card[1])]
                             ELSE g3
                   IN [g |-> _next_player(g4), ret |-> TRUE]
         ELSE [g |-> _next_player(g3), ret |-> TRUE]

\* PeakGame.play_card: the game it leaves and the value it returns
play_card(g, player, card) ==
    IF player # get_current_player(g) THEN [g |-> g, ret |-> FALSE]
    ELSE IF ~in_hand(card, g.players[player].hand) THEN [g |-> g, ret |-> FALSE]
    ELSE IF ~can_play_card(card, get_last_played_card(g)) THEN [g |-> g, ret |-> FALSE]
    ELSE
      LET g1 == [g EXCEPT !.players[player] = remove_card(@, card),
                          !.discard_pile = Append(@, card)]
          g2 == IF is_high_value_card(card)
                THEN [g1 EXCEPT !.high_card_played_this_round = TRUE]
                ELSE g1
          g3 == IF is_peak_card(card) THEN _handle_peak_card(g2) ELSE g2
      IN IF ~has_cards(g3.players[player])
         THEN IF can_finish_on_card(card, g3.high_card_played_this_round)
              THEN [g |-> _check_game_over(
                              [g3 EXCEPT !.players[player] = finish_game(@)]),
                    ret |-> TRUE]
              ELSE LET penalty_card == deal_card(g3.deck)
                       g4 == IF penalty_card.card # <<>>
                             THEN [g3 EXCEPT !.deck = penalty_card.cards,
                                             !.players[player] =
                                                 add_card(@, penalty_card.card[1])]
                             ELSE g3
                   IN [g |-> _next_player(g4), ret |-> TRUE]
         ELSE [g |-> _next_player(g3), ret |-> TRUE]

\* mutant: a draw from the empty deck turns the discard pile into the new deck
draw_card_refill(g, player) ==
    IF player # get_current_player(g) THEN [g |-> g, ret |-> FALSE]
    ELSE LET card == deal_card(g.deck) IN
         IF card.card # <<>>
         THEN LET g1 == [g EXCEPT !.deck = card.cards,
                                  !.players[player] = add_card(@, card.card[1])]
                  g2 == IF should_disqualify_player(g1.players[player])
                        THEN [g1 EXCEPT !.players[player] = disqualify(@)]
                        ELSE g1
              IN [g |-> _next_player(g2), ret |-> TRUE]
         ELSE [g |-> [g EXCEPT !.deck = g.discard_pile, !.discard_pile = <<>>],
               ret |-> FALSE]

\* mutant: a draw from the empty deck passes the turn on
draw_card_advance(g, player) ==
    IF player # get_current_player(g) THEN [g |-> g, ret |-> FALSE]
    ELSE LET card == deal_card(g.deck) IN
         IF card.card # <<>>
         THEN LET g1 == [g EXCEPT !.deck = card.cards,
                                  !.players[player] = add_card(@, card.card[1])]
                  g2 == IF should_disqualify_player(g1.players[player])
                        THEN [g1 EXCEPT !.players[player] = disqualify(@)]
                        ELSE g1
              IN [g |-> _next_player(g2), ret |-> TRUE]
         ELSE [g |-> _next_player(g), ret |-> FALSE]

\* PeakGame.draw_card: the game it leaves and the value it returns
draw_card(g, player) ==
    IF player # get_current_player(g) THEN [g |-> g, ret |-> FALSE]
    ELSE LET card == deal_card(g.deck) IN
         IF card.card # <<>>
         THEN LET g1 == [g EXCEPT !.deck = card.cards,
                                  !.players[player] = add_card(@, card.card[1])]
                  g2 == IF should_disqualify_player(g1.players[player])
                        THEN [g1 EXCEPT !.players[player] = disqualify(@)]
                        ELSE g1
              IN [g |-> _next_player(g2), ret |-> TRUE]
         ELSE [g |-> g, ret |-> FALSE]

\* mutant: the options are computed for the current player even when that
\* player has finished or is disqualified
get_player_options_of_current(g, player) ==
    IF player # get_current_player(g)
    THEN [g |-> g, ret |-> <<<<>>, FALSE>>]
    ELSE [g |-> g,
          ret |-> <<SelectSeq(g.players[player].hand,
                              LAMBDA c : can_play_card(c, get_last_played_card(g))),
                    ~is_empty(g.deck)>>]

\* PeakGame.get_player_options: ret is (playable_cards, can_draw); the method
\* assigns to no field of the game
get_player_options(g, player) ==
    IF player # get_current_player(g) \/ ~is_active(g.players[player])
    THEN [g |-> g, ret |-> <<<<>>, FALSE>>]
    ELSE [g |-> g,
          ret |-> <<SelectSeq(g.players[player].hand,
                              LAMBDA c : can_play_card(c, get_last_played_card(g))),
                    ~is_empty(g.deck)>>]

----------------------------------------------------------------------------
(* Deck.shuffle: random.shuffle may leave the deck in any order; the model   *)
(* starts from the orders below, written top of the deck first (0 = Peak).   *)

DealOrders ==
    << <<4, 5, 0, 0, 6, 0, 0, 7, 0, 8, 0, 3, 0, 9, 0, 2, 0, 10, 0, 1>>,
       <<9, 0, 8, 10, 0, 7, 0, 0, 6, 5, 0, 0, 4, 0, 3, 0, 2, 0, 1, 0>>,
       <<0, 0, 0, 0, 5, 6, 0, 0, 1, 2, 3, 0, 4, 7, 0, 8, 0, 9, 10, 0>>,
       <<6, 7, 0, 5, 0, 8, 0, 4, 9, 0, 3, 0, 10, 0, 2, 0, 0, 1, 0, 0>> >>

\* the deck list that deals in the k-th order (deal_card pops the last entry)
shuffle(k) ==
    LET order == DealOrders[k]
        n == Len(order)
    IN [i \in 1 .. n |->
          LET v == order[n + 1 - i] IN
          IF v = 0 THEN PeakCard ELSE Card(v, REGULAR)]

----------------------------------------------------------------------------
(* The driver: any sequence of setup_game, play_card and draw_card calls *)

Install(g) ==
    /\ players' = g.players
    /\ deck' = g.deck
    /\ discard_pile' = g.discard_pile
    /\ current_player_index' = g.current_player_index
    /\ game_over' = g.game_over
    /\ winner' = g.winner
    /\ high_card_played_this_round' = g.high_card_played_this_round
    /\ round_number' = g.round_number

\* the history variables after a call that left game g
Record(g, player, high) ==
    /\ high_card_players' =
          IF g.round_number # round_number THEN {}
          ELSE IF high THEN high_card_players \cup {player}
          ELSE high_card_players
    /\ finish_order' =
          IF g.players[player].has_finished /\ ~players[player].has_finished
          THEN Append(finish_order, player)
          ELSE finish_order

Init ==
    \E k \in 1 .. NumShuffles :
        /\ players = NewGame(PlayerNames, shuffle(k)).players
        /\ deck = NewGame(PlayerNames, shuffle(k)).deck
        /\ discard_pile = NewGame(PlayerNames, shuffle(k)).discard_pile
        /\ current_player_index = NewGame(PlayerNames, shuffle(k)).current_player_index
        /\ game_over = NewGame(PlayerNames, shuffle(k)).game_over
        /\ winner = NewGame(PlayerNames, shuffle(k)).winner
        /\ high_card_played_this_round = NewGame(PlayerNames, shuffle(k)).high_card_played_this_round
        /\ round_number = NewGame(PlayerNames, shuffle(k)).round_number
        /\ last_call = [op |-> "__init__", ret |-> TRUE]
        /\ high_card_players = {}
        /\ finish_order = <<>>
        /\ calls = 0

SetupGame ==
    /\ calls < MaxCalls
    /\ Install(setup_game(G))
    /\ last_call' = [op |-> "setup_game", ret |-> TRUE]
    /\ calls' = calls + 1
    /\ UNCHANGED <<high_card_players, finish_order>>

PlayCard(player, card) ==
    LET r == play_card(G, player, card) IN
    /\ calls < MaxCalls
    /\ Install(r.g)
    /\ last_call' = [op |-> "play_card", ret |-> r.ret]
    /\ calls' = IF r.ret THEN calls + 1 ELSE calls
    /\ Record(r.g, player, r.ret /\ is_high_value_card(card))

DrawCard(player) ==
    LET r == draw_card(G, player) IN
    /\ calls < MaxCalls
    /\ Install(r.g)
    /\ last_call' = [op |-> "draw_card", ret |-> r.ret]
    /\ calls' = IF r.ret THEN calls + 1 ELSE calls
    /\ Record(r.g, player, FALSE)

Next ==
    \/ SetupGame
    \/ \E player \in PlayerIds, card \in AllCards : PlayCard(player, card)
    \/ \E player \in PlayerIds : DrawCard(player)

Spec == Init /\ [][Next]_vars

----------------------------------------------------------------------------
(* Properties *)

HandSizes == [i \in PlayerIds |-> get_hand_size(players[i])]

RECURSIVE SumFrom(_, _)
SumFrom(f, i) == IF i >= MAX_PLAYERS THEN 0 ELSE f[i] + SumFrom(f, i + 1)

LastPlayed == discard_pile[Len(discard_pile)]

Succeeded(op) == last_call = [op |-> op, ret |-> TRUE]

Failed(op) == last_call = [op |-> op, ret |-> FALSE]

\* C1: card conservation -- in every reachable state the cards left in the
\* deck, the four hands and the discard pile add up to the 20 cards the deck
\* was created with.
CardConservation ==
    cards_remaining(deck) + SumFrom(HandSizes, 0) + Len(discard_pile)
        = Len(create_deck)

\* C1 witness: a Peak card has just been played and its penalty dealt, so cards
\* sit in the deck, in a hand grown by the penalty, and on the discard pile.
CardConservationWitness ==
    /\ Succeeded("play_card")
    /\ is_peak_card(LastPlayed)
    /\ deck # <<>>
    /\ \E i \in PlayerIds : HandSizes[i] > PEAK_CARD_PENALTY

\* C2: a rejected play_card changes nothing -- for every player and card,
\* play_card returns failure exactly when the player is not the current
\* player, or the card is not in the player's hand, or the card is a regular
\* card whose value differs by more than 1 from a regular card on top of the
\* discard pile; and whenever it returns failure the game it leaves is the
\* game it found.
RejectedPlayChangesNothing ==
    \A p \in PlayerIds, c \in AllCards :
        LET r == play_card(G, p, c)
            notTurn == p # current_player_index
            notHeld == \A i \in 1 .. Len(players[p].hand) : players[p].hand[i] # c
            illegal == /\ c.card_type = REGULAR
                       /\ discard_pile # <<>>
                       /\ LastPlayed.card_type = REGULAR
                       /\ \/ c.value - LastPlayed.value > 1
                          \/ LastPlayed.value - c.value > 1
        IN /\ ~r.ret <=> (notTurn \/ notHeld \/ illegal)
           /\ ~r.ret => r.g = G

\* C2 witness: a play_card call has just been rejected in a state where the
\* current player holds a card that may not follow the last played card.
RejectedPlayWitness ==
    /\ Failed("play_card")
    /\ discard_pile # <<>>
    /\ \E i \in 1 .. Len(players[current_player_index].hand) :
          LET c == players[current_player_index].hand[i] IN
          /\ ~can_play_card(c, <<LastPlayed>>)
          /\ ~play_card(G, current_player_index, c).ret

\* C3: a rejected draw_card changes nothing -- draw_card returns failure
\* exactly when the player is not the current player or the deck is empty,
\* and then the game it leaves (turn pointer included) is the game it found.
RejectedDrawChangesNothing ==
    \A p \in PlayerIds :
        LET r == draw_card(G, p) IN
        /\ ~r.ret <=> (p # current_player_index \/ Len(deck) = 0)
        /\ ~r.ret => r.g = G

\* C3 witness: the current player's draw has just failed on the empty deck of
\* a game that is not over.
RejectedDrawWitness ==
    /\ Failed("draw_card")
    /\ deck = <<>>
    /\ ~game_over
    /\ ~draw_card(G, current_player_index).ret

\* C4: turn progress -- right after a successful play_card or draw_card the
\* game is over or the player at current_player_index is active.
TurnProgress ==
    (Succeeded("play_card") \/ Succeeded("draw_card")) =>
        (game_over \/ is_active(players[current_player_index]))

\* C4 witness: a play that emptied the hand on a finishing card has just
\* succeeded; the turn stays with the finished player and the game is over.
TurnProgressWitness ==
    /\ Succeeded("play_card")
    /\ players[current_player_index].has_finished
    /\ game_over

\* C5: game over is terminal -- once game_over is set, no play_card or
\* draw_card call by any player changes any part of the game.
GameOverIsTerminal ==
    game_over =>
        /\ \A p \in PlayerIds, c \in AllCards : play_card(G, p, c).g = G
        /\ \A p \in PlayerIds : draw_card(G, p).g = G

\* the fresh game's first successful call was setup_game, and it is the call
\* made last
FreshSetup == Succeeded("setup_game") /\ calls = 1

RECURSIVE HandsFrom(_)
HandsFrom(i) ==
    IF i >= MAX_PLAYERS THEN <<>> ELSE players[i].hand \o HandsFrom(i + 1)

SetupDealsSevenEach ==
    FreshSetup => \A i \in PlayerIds : HandSizes[i] = STARTING_HAND_SIZE

\* the first active player after p in turn order (wrapping, p itself last)
NextActiveAfter(p) ==
    { q \in PlayerIds :
        /\ is_active(players[q])
        /\ \A d \in 1 .. MAX_PLAYERS :
              (d < (IF q = p THEN MAX_PLAYERS ELSE (q - p) % MAX_PLAYERS))
                  => ~is_active(players[(p + d) % MAX_PLAYERS]) }

Min(a, b) == IF a < b THEN a ELSE b

HighFinishNeedsOtherPlayersHighCard ==
    [][\A p \in PlayerIds :
          (/\ ~players[p].has_finished
           /\ players'[p].has_finished
           /\ is_high_value_card(discard_pile'[Len(discard_pile')]))
              => (high_card_players \ {p}) # {}]_vars

----------------------------------------------------------------------------
(* GameRules.get_winner over every assignment of the players' flags: the    *)
(* game starts with any flags set through Player.disqualify and             *)
(* Player.finish_game, and _check_game_over consults get_winner.            *)

FlagPlayers ==
    { [i \in PlayerIds |->
          [Player(PlayerNames[i + 1]) EXCEPT !.is_disqualified = d[i],
                                            !.has_finished = f[i]]] :
        d \in [PlayerIds -> BOOLEAN], f \in [PlayerIds -> BOOLEAN] }

InitWinner ==
    /\ players \in FlagPlayers
    /\ deck = shuffle(1)
    /\ discard_pile = <<>>
    /\ current_player_index = 0
    /\ game_over = FALSE
    /\ winner = <<>>
    /\ high_card_played_this_round = FALSE
    /\ round_number = INITIAL_ROUND
    /\ last_call = [op |-> "__init__", ret |-> TRUE]
    /\ high_card_players = {}
    /\ finish_order = <<>>
    /\ calls = 0

CheckGameOver ==
    /\ last_call.op = "__init__"
    /\ Install(_check_game_over(G))
    /\ last_call' = [op |-> "_check_game_over", ret |-> TRUE]
    /\ UNCHANGED <<high_card_players, finish_order, calls>>

NextWinner == CheckGameOver

SpecWinner == InitWinner /\ [][NextWinner]_vars

ActiveSet(ps) ==
    { i \in PlayerIds : ~ps[i].is_disqualified /\ ~ps[i].has_finished }

FinishedSet(ps) == { i \in PlayerIds : ps[i].has_finished }

\* the result table of the claim
ExpectedWinner(ps) ==
    IF Cardinality(ActiveSet(ps)) = 1 THEN <<CHOOSE i \in ActiveSet(ps) : TRUE>>
    ELSE IF ActiveSet(ps) = {} THEN <<>>
    ELSE IF FinishedSet(ps) # {}
         THEN <<CHOOSE i \in FinishedSet(ps) : \A j \in FinishedSet(ps) : i <= j>>
    ELSE <<>>

----------------------------------------------------------------------------
(* GameRules.can_play_card and GameRules.can_finish_on_card over every card, *)
(* every last played card (or none) and both values of the high-card flag:   *)
(* player 0 holds the card, the discard pile holds the last played card.     *)

InitRules ==
    \E c \in AllCards :
        /\ players = [NewGame(PlayerNames, shuffle(1)).players EXCEPT ![0] = add_card(@, c)]
        /\ deck = shuffle(1)
        /\ discard_pile \in {<<>>} \cup { <<l>> : l \in AllCards }
        /\ current_player_index = 0
        /\ game_over = FALSE
        /\ winner = <<>>
        /\ high_card_played_this_round \in BOOLEAN
        /\ round_number = INITIAL_ROUND
        /\ last_call = [op |-> "__init__", ret |-> TRUE]
        /\ high_card_players = {}
        /\ finish_order = <<>>
        /\ calls = 0

CanPlayCard ==
    /\ last_call.op = "__init__"
    /\ last_call' = [op |-> "can_play_card",
                     ret |-> can_play_card(players[0].hand[1], get_last_played_card(G))]
    /\ UNCHANGED <<gameVars, high_card_players, finish_order, calls>>

CanFinishOnCard ==
    /\ last_call.op = "__init__"
    /\ last_call' = [op |-> "can_finish_on_card",
                     ret |-> can_finish_on_card(players[0].hand[1],
                                                high_card_played_this_round)]
    /\ UNCHANGED <<gameVars, high_card_players, finish_order, calls>>

NextRules == CanPlayCard \/ CanFinishOnCard

SpecRules == InitRules /\ [][NextRules]_vars

\* the rule table of can_play_card, last being <<>> or <<card>>
CanPlayTable(c, last) ==
    \/ c.card_type = PEAK
    \/ last = <<>>
    \/ last[1].card_type = PEAK
    \/ /\ c.card_type = REGULAR
       /\ last[1].card_type = REGULAR
       /\ c.value - last[1].value \in {-1, 0, 1}

\* the rule table of can_finish_on_card
CanFinishTable(c, high) ==
    CASE c.card_type = PEAK -> FALSE
      [] c.value \in 1 .. 4 -> FALSE
      [] c.value \in 5 .. 6 -> TRUE
      [] c.value = 7 -> FALSE
      [] c.value \in 8 .. 10 -> high
      [] OTHER -> FALSE

\* C11: can_play_card rule table -- for every card and every last played card
\* (none, a regular 1-10 or Peak) can_play_card is true iff the card is Peak,
\* or nothing was played, or the last card is Peak, or both are regular with
\* values at most 1 apart; 5 on 6 is legal and 5 on 7 is not.
CanPlayRuleTable ==
    LET c == players[0].hand[1]
        last == get_last_played_card(G)
    IN /\ can_play_card(c, last) = CanPlayTable(c, last)
       /\ last_call.op = "can_play_card" => last_call.ret = CanPlayTable(c, last)
       /\ can_play_card(Card(5, REGULAR), <<Card(6, REGULAR)>>) = TRUE
       /\ can_play_card(Card(5, REGULAR), <<Card(7, REGULAR)>>) = FALSE

\* C11 witness: can_play_card has just refused the 5 on a 7.
CanPlayRuleWitness ==
    /\ last_call = [op |-> "can_play_card", ret |-> FALSE]
    /\ players[0].hand = <<Card(5, REGULAR)>>
    /\ discard_pile = <<Card(7, REGULAR)>>

\* C12: can_finish_on_card rule table -- for every card and both values of
\* the high-card flag the result is false for Peak, false for 1-4, true for
\* 5-6, false for 7, and the value of the flag for 8-10.
CanFinishRuleTable ==
    LET c == players[0].hand[1] IN
    /\ can_finish_on_card(c, high_card_played_this_round)
          = CanFinishTable(c, high_card_played_this_round)
    /\ last_call.op = "can_finish_on_card"
          => last_call.ret = CanFinishTable(c, high_card_played_this_round)

\* C12 witness: can_finish_on_card has just refused the 7 although a high
\* card was played this round.
CanFinishRuleWitness ==
    /\ last_call = [op |-> "can_finish_on_card", ret |-> FALSE]
    /\ players[0].hand = <<Card(7, REGULAR)>>
    /\ high_card_played_this_round

----------------------------------------------------------------------------
(* PeakGame.__init__ over lists of player names: no game exists until the   *)
(* driver constructs one; a constructor that raises leaves none.            *)

\* names a driver may pass, and the longest list of them that is tried
Names == {"Alice", "Bob", "Charlie", "Diana", "Eve"}

MaxNames == 5

NameLists == UNION { [1 .. n -> Names] : n \in 0 .. MaxNames }

\* no PeakGame object yet: the fields hold placeholders
InitNew ==
    /\ players = <<>>
    /\ deck = <<>>
    /\ discard_pile = <<>>
    /\ current_player_index = 0
    /\ game_over = FALSE
    /\ winner = <<>>
    /\ high_card_played_this_round = FALSE
    /\ round_number = 0
    /\ last_call = [op |-> "none", ret |-> TRUE, player_names |-> <<>>]
    /\ high_card_players = {}
    /\ finish_order = <<>>
    /\ calls = 0

Construct(player_names, k) ==
    LET g == NewGame(player_names, shuffle(k)) IN
    /\ last_call.op = "none"
    /\ IF Raised(g) THEN UNCHANGED gameVars ELSE Install(g)
    /\ last_call' = [op |-> "__init__", ret |-> ~Raised(g),
                     player_names |-> player_names]
    /\ UNCHANGED <<high_card_players, finish_order, calls>>

NextNew ==
    /\ last_call.op = "none"
    /\ \E player_names \in NameLists, k \in 1 .. NumShuffles :
           Construct(player_names, k)

SpecNew == InitNew /\ [][NextNew]_vars

Distinct(names) ==
    \A i, j \in 1 .. Len(names) : names[i] = names[j] => i = j

\* C13 as claimed: the constructor succeeds only for a list of exactly 4
\* distinct names; any other list is refused.
ConstructionNeedsFourDistinctNames ==
    last_call.op = "__init__" =>
        (last_call.ret <=> (/\ Len(last_call.player_names) = MAX_PLAYERS
                            /\ Distinct(last_call.player_names)))

\* C13 amended: the constructor succeeds exactly for a list of 4 names,
\* distinct or not, and then the game holds one fresh player per name in list
\* order; a list of any other length is refused and no game exists.
ConstructionNeedsFourNames ==
    last_call.op = "__init__" =>
        /\ last_call.ret <=> Len(last_call.player_names) = MAX_PLAYERS
        /\ last_call.ret =>
              /\ DOMAIN players = PlayerIds
              /\ \A i \in PlayerIds :
                    players[i] = [name |-> last_call.player_names[i + 1],
                                  hand |-> <<>>,
                                  is_disqualified |-> FALSE,
                                  has_finished |-> FALSE]
              /\ Len(deck) = Len(create_deck)
        /\ ~last_call.ret => players = <<>> /\ deck = <<>>

\* C13 witness: a game has been constructed from four names of which two are
\* the same.
ConstructionWitness ==
    /\ last_call.op = "__init__"
    /\ last_call.ret
    /\ players[0].name = players[1].name

----------------------------------------------------------------------------
(* Further properties of Spec *)

\* C14: player status flags are one-way -- no setup_game, play_card or
\* draw_card call turns a player's is_disqualified or has_finished from true
\* back to false.
FlagsAreOneWay ==
    [][\A i \in PlayerIds :
          /\ players[i].is_disqualified => players'[i].is_disqualified
          /\ players[i].has_finished => players'[i].has_finished]_vars

\* C14 witness: a finished player has been handed a card by a later
\* successful draw and is still finished.
FlagsAreOneWayWitness ==
    /\ Succeeded("draw_card")
    /\ \E i \in PlayerIds : players[i].has_finished /\ players[i].hand # <<>>

----------------------------------------------------------------------------
(* Player.add_card and Player.add_cards on fresh players: player 0 is handed *)
(* regular cards one at a time, player 1 Peak cards in lists.                *)

\* the largest hand that is built
MaxHand == 22

InitPlayer ==
    /\ players = NewGame(PlayerNames, shuffle(1)).players
    /\ deck = shuffle(1)
    /\ discard_pile = <<>>
    /\ current_player_index = 0
    /\ game_over = FALSE
    /\ winner = <<>>
    /\ high_card_played_this_round = FALSE
    /\ round_number = INITIAL_ROUND
    /\ last_call = [op |-> "__init__", ret |-> TRUE]
    /\ high_card_players = {}
    /\ finish_order = <<>>
    /\ calls = 0

AddCard ==
    /\ Len(players[0].hand) < MaxHand
    /\ players' = [players EXCEPT ![0] = add_card(@, Card(1, REGULAR))]
    /\ last_call' = [op |-> "add_card", ret |-> TRUE]
    /\ UNCHANGED <<deck, discard_pile, current_player_index, game_over, winner,
                   high_card_played_this_round, round_number,
                   high_card_players, finish_order, calls>>

AddCards(n) ==
    /\ Len(players[1].hand) + n <= MaxHand
    /\ players' = [players EXCEPT ![1] = add_cards(@, [i \in 1 .. n |-> PeakCard])]
    /\ last_call' = [op |-> "add_cards", ret |-> TRUE]
    /\ UNCHANGED <<deck, discard_pile, current_player_index, game_over, winner,
                   high_card_played_this_round, round_number,
                   high_card_players, finish_order, calls>>

NextPlayer == AddCard \/ \E n \in 1 .. MaxHand : AddCards(n)

SpecPlayer == InitPlayer /\ [][NextPlayer]_vars

\* C15: disqualification threshold -- a fresh player handed cards one at a
\* time (add_card) or in lists (add_cards) is not disqualified while the hand
\* holds at most 20 cards and is disqualified from the 21st card on.
DisqualifiedFromTwentyFirstCard ==
    \A i \in PlayerIds :
        /\ players[i].is_disqualified <=> Len(players[i].hand) > DISQUALIFY_OVER
        /\ Len(players[i].hand) = 20 => ~players[i].is_disqualified
        /\ Len(players[i].hand) = 21 => players[i].is_disqualified

\* C15 witness: add_card has just handed player 0 the 21st card, and a list
\* has taken player 1 past the threshold.
DisqualifiedWitness ==
    /\ last_call.op = "add_card"
    /\ Len(players[0].hand) = 21
    /\ players[0].is_disqualified
    /\ Len(players[1].hand) = 22
    /\ players[1].is_disqualified

----------------------------------------------------------------------------
(* Deck.deal_card and Deck.deal_cards on a shuffled deck, dealt down to      *)
(* empty and beyond.                                                         *)

\* the largest count asked of deal_cards
MaxDeal == 21

InitDeck ==
    /\ players = NewGame(PlayerNames, shuffle(1)).players
    /\ \E k \in 1 .. NumShuffles : deck = shuffle(k)
    /\ discard_pile = <<>>
    /\ current_player_index = 0
    /\ game_over = FALSE
    /\ winner = <<>>
    /\ high_card_played_this_round = FALSE
    /\ round_number = INITIAL_ROUND
    /\ last_call = [op |-> "__init__", ret |-> <<>>, count |-> 0, before |-> <<>>]
    /\ high_card_players = {}
    /\ finish_order = <<>>
    /\ calls = 0

DealCard ==
    LET r == deal_card(deck) IN
    /\ deck' = r.cards
    /\ last_call' = [op |-> "deal_card", ret |-> r.card, count |-> 1, before |-> deck]
    /\ UNCHANGED <<players, discard_pile, current_player_index, game_over, winner,
                   high_card_played_this_round, round_number,
                   high_card_players, finish_order, calls>>

DealCards(count) ==
    LET r == deal_cards(deck, count) IN
    /\ deck' = r.cards
    /\ last_call' = [op |-> "deal_cards", ret |-> r.dealt, count |-> count, before |-> deck]
    /\ UNCHANGED <<players, discard_pile, current_player_index, game_over, winner,
                   high_card_players, high_card_played_this_round, round_number,
                   finish_order, calls>>

NextDeck == DealCard \/ \E count \in 0 .. MaxDeal : DealCards(count)

SpecDeck == InitDeck /\ [][NextDeck]_vars

\* C16: deck shortage is not an error -- deal_card on an empty deck returns
\* None and leaves the deck empty (and on a non-empty deck removes and returns
\* the top card); deal_cards(n) on a deck of r cards returns the top
\* min(n, r) cards in dealing order and leaves the other r - min(n, r).
DeckShortage ==
    LET r == Len(last_call.before)
        m == Min(last_call.count, r) IN
    /\ last_call.op = "deal_card" /\ r = 0 =>
           last_call.ret = <<>> /\ deck = <<>>
    /\ last_call.op = "deal_card" /\ r > 0 =>
           /\ last_call.ret = <<last_call.before[r]>>
           /\ deck = SubSeq(last_call.before, 1, r - 1)
    /\ last_call.op = "deal_cards" =>
           /\ Len(last_call.ret) = m
           /\ Len(deck) = r - m
           /\ deck = SubSeq(last_call.before, 1, r - m)
           /\ \A i \in 1 .. m : last_call.ret[i] = last_call.before[r + 1 - i]

\* C16 witness: deal_cards was asked for more cards than the deck held and
\* returned the few that were left.
DeckShortageWitness ==
    /\ last_call.op = "deal_cards"
    /\ Len(last_call.before) > 0
    /\ last_call.count > Len(last_call.before)
    /\ Len(last_call.ret) = Len(last_call.before)
    /\ deck = <<>>

\* deal_card has been called on an empty deck
DealOneOnEmpty ==
    last_call.op = "deal_card" /\ last_call.before = <<>>

----------------------------------------------------------------------------
(* The game with the query get_player_options, which the turn loop of        *)
(* main.py calls before every move.                                          *)

GetPlayerOptions(player) ==
    LET r == get_player_options(G, player) IN
    /\ Install(r.g)
    /\ last_call' = [op |-> "get_player_options", ret |-> r.ret, player |-> player]
    /\ UNCHANGED <<high_card_players, finish_order, calls>>

NextOptions ==
    \/ Next
    \/ \E player \in PlayerIds : GetPlayerOptions(player)

SpecOptions == Init /\ [][NextOptions]_vars

\* what get_player_options is to return for a player in the current state
ExpectedOptions(p) ==
    IF p = current_player_index /\ is_active(players[p])
    THEN <<SelectSeq(players[p].hand,
                     LAMBDA c : CanPlayTable(c, IF discard_pile = <<>> THEN <<>>
                                                ELSE <<LastPlayed>>)),
           Len(deck) > 0>>
    ELSE <<<<>>, FALSE>>

\* C17: get_player_options -- every call returns ([], False) for a player who
\* is not the current player or is not active, and for the active current
\* player the hand cards playable on the top of the discard pile, in hand
\* order, with can_draw = (the deck is not empty); the call changes nothing
\* in the game.
PlayerOptions ==
    [][last_call'.op = "get_player_options" =>
          /\ last_call'.ret = ExpectedOptions(last_call'.player)
          /\ gameVars' = gameVars]_vars

\* C17 witness: the active current player was told that some but not all of
\* the hand is playable and that a card can be drawn.
PlayerOptionsWitness ==
    /\ last_call.op = "get_player_options"
    /\ last_call.player = current_player_index
    /\ last_call.ret[1] # <<>>
    /\ Len(last_call.ret[1]) < Len(players[last_call.player].hand)
    /\ last_call.ret[2]

----------------------------------------------------------------------------
(* Further properties of Spec: the stall *)

\* the game is not over, it is the turn of an active player, no card of that
\* player's hand can be played on the discard pile, and the deck is empty
Stalled ==
    LET p == current_player_index IN
    /\ ~game_over
    /\ is_active(players[p])
    /\ deck = <<>>
    /\ \A i \in 1 .. Len(players[p].hand) :
           ~CanPlayTable(players[p].hand[i],
                         IF discard_pile = <<>> THEN <<>> ELSE <<LastPlayed>>)

\* C18: the stall is not resolved -- in a stalled state every play_card and
\* every draw_card call, by any player with any card, returns False and leaves
\* the game as it is, so the state stays stalled and current_player_index
\* never changes again.
StallIsNotResolved ==
    Stalled =>
        /\ \A p \in PlayerIds : draw_card(G, p) = [g |-> G, ret |-> FALSE]
        /\ \A p \in PlayerIds, c \in AllCards :
               play_card(G, p, c) = [g |-> G, ret |-> FALSE]

\* C18 witness: the stall is reached -- the current player, holding cards none
\* of which can be played, has just been refused a draw from the empty deck.
StallWitness ==
    /\ Stalled
    /\ Failed("draw_card")
    /\ players[current_player_index].hand # <<>>

\* the stall of a player who was dealt no cards
StallWithEmptyHand ==
    /\ Stalled
    /\ Failed("draw_card")
    /\ players[current_player_index].hand = <<>>

----------------------------------------------------------------------------
(* Further properties of Spec: the deck *)

\* C19: the deck is never refilled -- no setup_game, play_card or draw_card
\* call increases the number of cards in the deck; the deck after a call is
\* what was left under the cards dealt, so no discarded card returns to it.
DeckNeverRefilled ==
    [][/\ cards_remaining(deck') <= cards_remaining(deck)
       /\ deck' = SubSeq(deck, 1, Len(deck'))]_vars

\* C19 witness: the deck has run out while cards lie on the discard pile, and
\* a draw has been refused.
DeckNeverRefilledWitness ==
    /\ Failed("draw_card")
    /\ deck = <<>>
    /\ Len(discard_pile) > 1

----------------------------------------------------------------------------
(* Further properties of Spec: the finish step of play_card *)

\* the first active player after p in turn order among the players ps
NextActiveIn(ps, p) ==
    { q \in PlayerIds :
        /\ is_active(ps[q])
        /\ \A d \in 1 .. MAX_PLAYERS :
              (d < (IF q = p THEN MAX_PLAYERS ELSE (q - p) % MAX_PLAYERS))
                  => ~is_active(ps[(p + d) % MAX_PLAYERS]) }

\* the cards a Peak card c played by p takes from the deck
PeakPenaltyOf(p, c) ==
    IF c.card_type = PEAK /\ NextActiveIn(players, p) # {}
    THEN Min(PEAK_CARD_PENALTY, Len(deck))
    ELSE 0

\* player p may play c, and the play leaves p's hand empty at the finish check
PlaysLastCard(p, c) ==
    /\ p = current_player_index
    /\ players[p].hand = <<c>>
    /\ CanPlayTable(c, IF discard_pile = <<>> THEN <<>> ELSE <<LastPlayed>>)
    /\ ~(c.card_type = PEAK /\ NextActiveIn(players, p) = {p} /\ deck # <<>>)

\* the flag as the finish check reads it, after the card's own value has set it
FlagAtFinishCheck(c) ==
    high_card_played_this_round \/ (c.card_type = REGULAR /\ c.value \in 8 .. 10)

FinishStepFinishes ==
    \E p \in PlayerIds, c \in AllCards :
        /\ PlaysLastCard(p, c)
        /\ CanFinishTable(c, FlagAtFinishCheck(c))
        /\ calls < MaxCalls

\* a player is about to play the last card, not a finishing one, with no card
\* left in the deck
FinishStepEmptyDeck ==
    \E p \in PlayerIds, c \in AllCards :
        /\ PlaysLastCard(p, c)
        /\ ~CanFinishTable(c, FlagAtFinishCheck(c))
        /\ Len(deck) - PeakPenaltyOf(p, c) = 0
        /\ calls < MaxCalls

----------------------------------------------------------------------------
(* Further properties of Spec: what a successful play does to the piles *)

\* the hand without its first entry equal to card
RECURSIVE WithoutFirst(_, _)
WithoutFirst(hand, card) ==
    IF hand = <<>> THEN <<>>
    ELSE IF Head(hand) = card THEN Tail(hand)
    ELSE <<Head(hand)>> \o WithoutFirst(Tail(hand), card)

\* C21: effect of a successful play_card on the discard pile -- the pile grows
\* by exactly the played card, which becomes its last element and the value of
\* get_last_played_card, the earlier elements keep their order, and the
\* player's hand loses exactly the first entry equal to the card (cards picked
\* up in the same call are appended behind the rest).
PlayMovesCardToDiscard ==
    \A p \in PlayerIds, c \in AllCards :
        LET r == play_card(G, p, c)
            hand == players[p].hand
            left == WithoutFirst(hand, c)
        IN r.ret =>
              /\ Len(r.g.discard_pile) = Len(discard_pile) + 1
              /\ r.g.discard_pile = Append(discard_pile, c)
              /\ SubSeq(r.g.discard_pile, 1, Len(discard_pile)) = discard_pile
              /\ get_last_played_card(r.g) = <<c>>
              /\ Len(left) = Len(hand) - 1
              /\ Len(r.g.players[p].hand) >= Len(left)
              /\ SubSeq(r.g.players[p].hand, 1, Len(left)) = left

\* C21 witness: a card can be played from a hand that holds it twice with
\* another card in between, onto a pile that already holds cards.
PlayMovesCardWitness ==
    /\ calls < MaxCalls
    /\ Len(discard_pile) >= 2
    /\ \E p \in PlayerIds, c \in AllCards :
          /\ play_card(G, p, c).ret
          /\ \E i, j, k \in 1 .. Len(players[p].hand) :
                /\ i < j /\ j < k
                /\ players[p].hand[i] = c
                /\ players[p].hand[j] # c
                /\ players[p].hand[k] = c

----------------------------------------------------------------------------
(* Further properties of Spec: rounds *)

\* the play of c by p ends in the finish branch, which does not pass the turn
FinishesOn(p, c) ==
    PlaysLastCard(p, c) /\ CanFinishTable(c, FlagAtFinishCheck(c))

\* the game g reached from the current state by a call of player p that
\* passed the turn with the flag at flag: the round boundary is where claimed
RoundBoundaryAt(g, p, flag) ==
    IF NextActiveIn(g.players, p) = {}
    THEN g.round_number = round_number
    ELSE IF g.current_player_index <= p
    THEN /\ g.round_number = round_number + 1
         /\ g.high_card_played_this_round = FALSE
    ELSE /\ g.round_number = round_number
         /\ g.high_card_played_this_round = flag

\* C22: round boundary -- whenever a successful draw_card or a successful
\* play_card that does not finish passes the turn to a next active player,
\* round_number grows by exactly 1 and high_card_played_this_round is reset
\* exactly when the new current_player_index is <= the old one, and otherwise
\* round_number is unchanged and the flag is not reset; round_number is always
\* >= 1 and never decreases.
RoundBoundary ==
    /\ [](/\ round_number >= INITIAL_ROUND
          /\ \A p \in PlayerIds :
                draw_card(G, p).ret =>
                    RoundBoundaryAt(draw_card(G, p).g, p,
                                    high_card_played_this_round)
          /\ \A p \in PlayerIds, c \in AllCards :
                play_card(G, p, c).ret /\ ~FinishesOn(p, c) =>
                    RoundBoundaryAt(play_card(G, p, c).g, p, FlagAtFinishCheck(c)))
    /\ [][round_number' >= round_number]_vars

\* C22 witness: the flag is set and the coming call wraps the turn around, so
\* a round ends in which a high card was played.
RoundBoundaryWitness ==
    /\ calls < MaxCalls
    /\ high_card_played_this_round
    /\ round_number > INITIAL_ROUND
    /\ \E p \in PlayerIds :
          /\ draw_card(G, p).ret
          /\ draw_card(G, p).g.current_player_index <= p
          /\ draw_card(G, p).g.round_number = round_number + 1

----------------------------------------------------------------------------
(* Further properties of Spec: the high-card flag *)

\* C23: the high-card flag tracks the round -- in every reachable state
\* high_card_played_this_round is true iff a regular 8, 9 or 10 was played
\* successfully since round_number last grew (or since the start of the game),
\* and once set it stays set until round_number changes.
HighCardFlagTracksRound ==
    /\ [](high_card_played_this_round <=> high_card_players # {})
    /\ [][high_card_played_this_round /\ round_number' = round_number
              => high_card_played_this_round']_vars

\* C23 witness: in a later round a high card was played without finishing,
\* and the flag is set.
HighCardFlagWitness ==
    /\ Succeeded("play_card")
    /\ round_number > INITIAL_ROUND
    /\ finish_order = <<>>
    /\ high_card_played_this_round
    /\ is_high_value_card(LastPlayed)

----------------------------------------------------------------------------
(* Further properties of Spec: what a successful draw does *)

\* C24: effect of a successful draw_card -- the deck loses exactly its top
\* card, the drawing player's hand gains exactly that card at its end, the
\* discard pile and the other players' hands are unchanged, and
\* current_player_index moves to the next active player after the drawer in
\* turn order, wrapping.
DrawMovesTopCardToHand ==
    \A p \in PlayerIds :
        LET r == draw_card(G, p)
            next == NextActiveIn(r.g.players, p)
        IN r.ret =>
              /\ p = current_player_index
              /\ deck # <<>>
              /\ r.g.deck = SubSeq(deck, 1, Len(deck) - 1)
              /\ r.g.players[p].hand = Append(players[p].hand, deck[Len(deck)])
              /\ r.g.discard_pile = discard_pile
              /\ \A q \in PlayerIds \ {p} : r.g.players[q].hand = players[q].hand
              /\ IF next = {} THEN r.g.current_player_index = p
                 ELSE r.g.current_player_index \in next

\* C24 witness: a draw is possible that passes the turn over a player who is
\* not active, with cards on the discard pile.
DrawMovesTopCardWitness ==
    /\ calls < MaxCalls
    /\ discard_pile # <<>>
    /\ \E p \in PlayerIds :
          /\ draw_card(G, p).ret
          /\ ~is_active(players[(p + 1) % MAX_PLAYERS])
          /\ draw_card(G, p).g.current_player_index = (p + 2) % MAX_PLAYERS

----------------------------------------------------------------------------
(* Further properties of Spec: the recorded winner *)

----------------------------------------------------------------------------
(* The game on one more deck, whose three highest cards are dealt first, so  *)
(* that three players can finish within a few calls and one active player   *)
(* is left.                                                                  *)

HighCardsFirst ==
    <<8, 9, 10, 0, 5, 6, 7, 0, 0, 4, 0, 3, 0, 2, 0, 1, 0, 0, 0, 0>>

\* the deck list that deals in the given order (deal_card pops the last entry)
deck_of(order) ==
    [i \in 1 .. Len(order) |->
        LET v == order[Len(order) + 1 - i] IN
        IF v = 0 THEN PeakCard ELSE Card(v, REGULAR)]

InitEndgame ==
    \E cards \in {deck_of(HighCardsFirst)} \cup {shuffle(k) : k \in 1 .. NumShuffles} :
        /\ players = NewGame(PlayerNames, cards).players
        /\ deck = NewGame(PlayerNames, cards).deck
        /\ discard_pile = NewGame(PlayerNames, cards).discard_pile
        /\ current_player_index = NewGame(PlayerNames, cards).current_player_index
        /\ game_over = NewGame(PlayerNames, cards).game_over
        /\ winner = NewGame(PlayerNames, cards).winner
        /\ high_card_played_this_round =
               NewGame(PlayerNames, cards).high_card_played_this_round
        /\ round_number = NewGame(PlayerNames, cards).round_number
        /\ last_call = [op |-> "__init__", ret |-> TRUE]
        /\ high_card_players = {}
        /\ finish_order = <<>>
        /\ calls = 0

SpecEndgame == InitEndgame /\ [][Next]_vars

----------------------------------------------------------------------------
(* Further properties of Spec: disqualification *)

\* C27: disqualification is unreachable -- in every state reached from a
\* fresh game by setup_game, play_card and draw_card calls no hand holds more
\* than 20 cards and no player is disqualified.
NobodyDisqualified ==
    \A i \in PlayerIds :
        /\ get_hand_size(players[i]) <= Len(create_deck)
        /\ ~players[i].is_disqualified

\* C27 witness: a Peak card has been played and a player holds more cards
\* than half the deck.
NobodyDisqualifiedWitness ==
    /\ Succeeded("play_card")
    /\ is_peak_card(LastPlayed)
    /\ \E i \in PlayerIds : 2 * get_hand_size(players[i]) > Len(create_deck)

----------------------------------------------------------------------------
(* The game as main.py starts it: setup_game once, right after construction, *)
(* then any play_card and draw_card calls.                                   *)

NextSetupFirst ==
    \/ /\ last_call.op = "__init__"
       /\ SetupGame
    \/ /\ last_call.op # "__init__"
       /\ \E player \in PlayerIds, card \in AllCards : PlayCard(player, card)
    \/ /\ last_call.op # "__init__"
       /\ \E player \in PlayerIds : DrawCard(player)

SpecSetupFirst == Init /\ [][NextSetupFirst]_vars

----------------------------------------------------------------------------
(* Further properties of Spec: the discard pile, and options against moves *)

\* C29: discard pile legality -- in every reachable state each card on the
\* discard pile could be played on the card below it: two adjacent regular
\* cards differ in value by at most 1.
DiscardPileLegal ==
    \A i \in 1 .. Len(discard_pile) - 1 :
        /\ CanPlayTable(discard_pile[i + 1], <<discard_pile[i]>>)
        /\ (discard_pile[i].card_type = REGULAR
               /\ discard_pile[i + 1].card_type = REGULAR)
              => discard_pile[i + 1].value - discard_pile[i].value \in {-1, 0, 1}

\* C29 witness: a regular card lies directly on a regular card, and a third
\* card lies on top of them.
DiscardPileLegalWitness ==
    /\ Succeeded("play_card")
    /\ Len(discard_pile) >= 3
    /\ discard_pile[1].card_type = REGULAR
    /\ discard_pile[2].card_type = REGULAR

\* C30: options agree with moves -- in every reachable state and for every
\* player p, play_card(p, c) succeeds for every card c that
\* get_player_options(p) lists as playable and draw_card(p) succeeds if it
\* reports can_draw; conversely, whenever play_card(p, c) succeeds c is listed
\* as playable, and whenever draw_card(p) succeeds can_draw is reported.
OptionsAgreeWithMoves ==
    \A p \in PlayerIds :
        LET options == get_player_options(G, p).ret
            playable == { options[1][i] : i \in 1 .. Len(options[1]) }
            can_draw == options[2]
        IN /\ \A c \in AllCards : (c \in playable) <=> play_card(G, p, c).ret
           /\ can_draw <=> draw_card(G, p).ret

----------------------------------------------------------------------------
(* Further properties of Spec: the card pool *)

\* how often card occurs in the list cards
Occurrences(cards, card) ==
    Cardinality({ i \in 1 .. Len(cards) : cards[i] = card })

\* how often card occurs in the deck, the four hands and the discard pile
InGame(card) ==
    Occurrences(deck, card) + Occurrences(discard_pile, card)
        + SumFrom([i \in PlayerIds |-> Occurrences(players[i].hand, card)], 0)

\* C31: card pool identity -- in every reachable state the deck, the four
\* hands and the discard pile together hold each regular card 1 to 10 exactly
\* once and exactly 10 Peak cards, and nothing else, so no two regular cards
\* of the same value coexist.
CardPoolPreserved ==
    /\ \A v \in 1 .. 10 : InGame(Card(v, REGULAR)) = 1
    /\ InGame(PeakCard) = 10
    /\ \A i \in 1 .. Len(deck) : deck[i] \in AllCards
    /\ \A i \in 1 .. Len(discard_pile) : discard_pile[i] \in AllCards
    /\ \A p \in PlayerIds :
          \A i \in 1 .. Len(players[p].hand) : players[p].hand[i] \in AllCards

\* C31 witness: a regular card has been played from a hand that also holds
\* other cards, while cards lie in the deck, in three hands or more and on the
\* discard pile, Peak cards among them.
CardPoolWitness ==
    /\ Succeeded("play_card")
    /\ LastPlayed.card_type = REGULAR
    /\ deck # <<>>
    /\ Occurrences(discard_pile, PeakCard) >= 1
    /\ Cardinality({ p \in PlayerIds : Len(players[p].hand) >= 2 }) >= 3

====
